---- MODULE Spec2Model ----
(***************************************************************************)
(* A model of the bookkeeping core of pdf-tools: PDFFileManager of         *)
(* src/pdf_merger.py (the ordered list of PDFFile objects, its hash->count *)
(* index and the duplicate statuses) and the forced add of PDFMergerGUI.   *)
(*                                                                         *)
(* Python lists hold references: `files` is a sequence of object ids and   *)
(* `objs` is the heap of PDFFile objects, so that one object listed twice  *)
(* is one object.  Indices passed to operations are Python's (0-based).    *)
(***************************************************************************)
EXTENDS Integers, Sequences, FiniteSets, TLC

VARIABLES program, files, hash_counts, objs,
          current_pdf_path, doc, total_pages, current_preview_page,
          page_ranges, ranges_listbox, selection, drag_data,
          files_listbox, current_preview_index, remove_duplicates_btn,
          writer, output_file, last

\* The state of the merger's PDFFileManager.
manager == <<files, hash_counts, objs>>

\* The state of the splitter's window.
gui == <<current_pdf_path, doc, total_pages, current_preview_page,
         page_ranges, ranges_listbox, selection, drag_data>>

\* The widgets and preview position of the merger's window.  Its listbox
\* and preview page are `selection`, `drag_data` and `current_preview_page`:
\* each program has one DraggableListbox and one current_preview_page.
window == <<files_listbox, current_preview_index, remove_duplicates_btn>>

vars == <<program, manager, gui, window, writer, output_file, last>>

\* ------------------------------------------------------------------ bounds

\* The number of PDFFile objects created over a run (adds that open a file).
MaxDocs == 3

\* The splitter's range list is explored up to this length.
MaxRanges == 2

\* The file dialog of the merger's window returns up to this many paths.
MaxBatch == 2

\* ------------------------------------------------------- the file system

NORMAL == "normal"
DUPLICATE == "duplicate"

FileStatus == {NORMAL, DUPLICATE}

\* The files on disk the user can pick.  `content` stands for the bytes:
\* "none" is a file that cannot be read at all, `pdf` tells whether the
\* codec accepts the bytes, and `pages` is the number of pages they hold.
\* Two files share a name in different directories, and two files share
\* their bytes under different names.
Disk ==
  { [dir |-> "a", name |-> "x.pdf", content |-> "bytes1", pdf |-> TRUE,  pages |-> 3],
    [dir |-> "b", name |-> "x.pdf", content |-> "bytes2", pdf |-> TRUE,  pages |-> 2],
    [dir |-> "c", name |-> "y.pdf", content |-> "bytes1", pdf |-> TRUE,  pages |-> 3],
    [dir |-> "d", name |-> "z.pdf", content |-> "none",   pdf |-> FALSE, pages |-> 0],
    [dir |-> "e", name |-> "w.pdf", content |-> "bytes3", pdf |-> FALSE, pages |-> 0] }

\* os.path.basename: the part of the path after the last separator.
basename(path) == path.name

\* PDFFile.filename
filename(pdf_file) == basename(pdf_file.path)

\* hashlib.md5 over the bytes: equal bytes give equal digests, and the
\* digests of the different contents of Disk differ.
md5(content) ==
  CASE content = "bytes1" -> "d41d"
    [] content = "bytes2" -> "9e10"
    [] content = "bytes3" -> "c4ca"

\* PDFFileManager._calculate_hash: open(file_path, "rb") raises on a file
\* that cannot be read; otherwise the digest of its bytes.
calculate_hash(path) ==
  IF path.content = "none"
  THEN [raised |-> TRUE, hash |-> "none"]
  ELSE [raised |-> FALSE, hash |-> md5(path.content)]

\* fitz.open(path): raises unless the codec accepts the file.
fitz_open_raises(path) == ~path.pdf

\* PDFFile(path=..., doc=..., hash=...): status defaults to NORMAL and the
\* document handle is open.
PDFFile(path, file_hash) ==
  [path |-> path, hash |-> file_hash, status |-> NORMAL, closed |-> FALSE]

\* ------------------------------------------------------------ dictionaries

EmptyDict == [h \in {} |-> 0]

\* d[k] = v
DictPut(d, k, v) == [h \in DOMAIN d \cup {k} |-> IF h = k THEN v ELSE d[h]]

\* del d[k]
DictDel(d, k) == [h \in DOMAIN d \ {k} |-> d[h]]

\* d.get(k, default)
DictGet(d, k, default) == IF k \in DOMAIN d THEN d[k] ELSE default

\* ------------------------------------------------------- sequence helpers

\* list.pop(index) with 0 <= index < len: the list without that position.
ListPop(s, index) ==
  [i \in 1..(Len(s) - 1) |-> IF i <= index THEN s[i] ELSE s[i + 1]]

\* The manager's state as one value.
Mgr == [files |-> files, hash_counts |-> hash_counts, objs |-> objs]

\* ------------------------------------------------------------- PDFFile

\* PDFFile.close -> fitz.Document.close: closes the handle; the codec raises
\* ValueError("document closed") when the document is closed already.
close(heap, o) ==
  IF heap[o].closed
  THEN [raised |-> TRUE, objs |-> heap]
  ELSE [raised |-> FALSE, objs |-> [heap EXCEPT ![o].closed = TRUE]]

\* ------------------------------------------------------ PDFFileManager

\* PDFFileManager._file_exists
file_exists(m, file_hash) == file_hash \in DOMAIN m.hash_counts

\* The loop of _update_duplicate_statuses from position i of the list on:
\* a hash missing from _hash_counts raises KeyError and leaves the statuses
\* set so far.
RECURSIVE update_from(_, _, _, _)
update_from(i, fs, counts, heap) ==
  IF i > Len(fs)
  THEN [raised |-> FALSE, objs |-> heap]
  ELSE LET o == fs[i]
           h == heap[o].hash
       IN IF h \notin DOMAIN counts
          THEN [raised |-> TRUE, objs |-> heap]
          ELSE update_from(i + 1, fs, counts,
                 [heap EXCEPT ![o].status =
                    IF counts[h] > 1 THEN DUPLICATE ELSE NORMAL])

\* PDFFileManager._update_duplicate_statuses
update_duplicate_statuses(fs, counts, heap) == update_from(1, fs, counts, heap)

\* The tail shared by add_file and _force_add_file: append the new PDFFile,
\* count its hash, update the statuses.
append_file(m, path, file_hash) ==
  LET o == Len(m.objs) + 1
      heap == Append(m.objs, PDFFile(path, file_hash))
      fs == Append(m.files, o)
      counts == DictPut(m.hash_counts, file_hash,
                        DictGet(m.hash_counts, file_hash, 0) + 1)
      u == update_duplicate_statuses(fs, counts, heap)
  IN [m |-> [files |-> fs, hash_counts |-> counts, objs |-> u.objs],
      raised |-> u.raised]

\* add_file as it would be with the hash counted before the document is
\* opened: a codec rejection then leaves the count behind.
add_file_counts_before_open(m, file_path) ==
  LET hr == calculate_hash(file_path) IN
  IF hr.raised
  THEN [m |-> m, ret |-> [ok |-> FALSE, msg |-> "IOError"]]
  ELSE IF file_exists(m, hr.hash)
  THEN [m |-> m, ret |-> [ok |-> FALSE, msg |-> "already exists"]]
  ELSE IF fitz_open_raises(file_path)
  THEN [m |-> [m EXCEPT !.hash_counts = DictPut(m.hash_counts, hr.hash, 1)],
        ret |-> [ok |-> FALSE, msg |-> "FileDataError"]]
  ELSE LET a == append_file(m, file_path, hr.hash)
       IN [m |-> a.m,
           ret |-> IF a.raised
                   THEN [ok |-> FALSE, msg |-> "KeyError"]
                   ELSE [ok |-> TRUE, msg |-> hr.hash]]

\* PDFFileManager.add_file: returns (success, error_message or file_hash);
\* every exception is caught and returned as (False, str(e)).
add_file(m, file_path) ==
  LET hr == calculate_hash(file_path) IN
  IF hr.raised
  THEN [m |-> m, ret |-> [ok |-> FALSE, msg |-> "IOError"]]
  ELSE IF file_exists(m, hr.hash)
  THEN [m |-> m, ret |-> [ok |-> FALSE, msg |-> "already exists"]]
  ELSE IF fitz_open_raises(file_path)
  THEN [m |-> m, ret |-> [ok |-> FALSE, msg |-> "FileDataError"]]
  ELSE LET a == append_file(m, file_path, hr.hash)
       IN [m |-> a.m,
           ret |-> IF a.raised
                   THEN [ok |-> FALSE, msg |-> "KeyError"]
                   ELSE [ok |-> TRUE, msg |-> hr.hash]]

\* PDFMergerGUI._force_add_file: opens the document first, then hashes, and
\* appends without the duplicate check; every exception ends in an error box.
force_add_file(m, path) ==
  IF fitz_open_raises(path)
  THEN [m |-> m, ret |-> [ok |-> FALSE, msg |-> "FileDataError"]]
  ELSE LET hr == calculate_hash(path) IN
       IF hr.raised
       THEN [m |-> m, ret |-> [ok |-> FALSE, msg |-> "IOError"]]
       ELSE LET a == append_file(m, path, hr.hash)
            IN [m |-> a.m,
                ret |-> IF a.raised
                        THEN [ok |-> FALSE, msg |-> "KeyError"]
                        ELSE [ok |-> TRUE, msg |-> hr.hash]]

\* PDFFileManager.remove_file: nothing is caught, so an exception leaves the
\* manager as the statements before it made it.
remove_file(m, index) ==
  IF ~(0 <= index /\ index < Len(m.files))
  THEN [m |-> m, ret |-> [ok |-> FALSE, msg |-> "return"]]
  ELSE LET o == m.files[index + 1]
           fs == ListPop(m.files, index)
           c == close(m.objs, o)
           h == m.objs[o].hash
       IN IF c.raised
          THEN [m |-> [m EXCEPT !.files = fs],
                ret |-> [ok |-> FALSE, msg |-> "ValueError"]]
          ELSE IF h \notin DOMAIN m.hash_counts
          THEN [m |-> [files |-> fs, hash_counts |-> m.hash_counts, objs |-> c.objs],
                ret |-> [ok |-> FALSE, msg |-> "KeyError"]]
          ELSE LET counts == IF m.hash_counts[h] - 1 = 0
                             THEN DictDel(m.hash_counts, h)
                             ELSE DictPut(m.hash_counts, h, m.hash_counts[h] - 1)
                   u == update_duplicate_statuses(fs, counts, c.objs)
               IN [m |-> [files |-> fs, hash_counts |-> counts, objs |-> u.objs],
                   ret |-> IF u.raised
                           THEN [ok |-> FALSE, msg |-> "KeyError"]
                           ELSE [ok |-> TRUE, msg |-> "return"]]

\* The inner loop of reorder_files: the first PDFFile of the list, from
\* position i on, with the given filename (0 when the loop ends without one).
RECURSIVE first_with_filename(_, _, _, _)
first_with_filename(i, fs, heap, name) ==
  IF i > Len(fs) THEN 0
  ELSE IF filename(heap[fs[i]]) = name THEN fs[i]
  ELSE first_with_filename(i + 1, fs, heap, name)

\* The outer loop of reorder_files: new_files after the names from k on.
RECURSIVE collect_new_files(_, _, _, _, _)
collect_new_files(k, new_order, fs, heap, new_files) ==
  IF k > Len(new_order) THEN new_files
  ELSE LET o == first_with_filename(1, fs, heap, new_order[k])
       IN collect_new_files(k + 1, new_order, fs, heap,
            IF o = 0 THEN new_files ELSE Append(new_files, o))

\* PDFFileManager.reorder_files
reorder_files(m, new_order) ==
  LET new_files == collect_new_files(1, new_order, m.files, m.objs, <<>>)
  IN IF Len(new_files) = Len(m.files)
     THEN [m |-> [m EXCEPT !.files = new_files],
           ret |-> [ok |-> TRUE, msg |-> "return"]]
     ELSE [m |-> m, ret |-> [ok |-> FALSE, msg |-> "return"]]

\* The first loop of remove_duplicates from position i on.  close() raising
\* ends the call before self.files is assigned.
RECURSIVE dedup_from(_, _, _, _, _, _)
dedup_from(i, fs, heap, seen_hashes, files_to_keep, removed_count) ==
  IF i > Len(fs)
  THEN [raised |-> FALSE, objs |-> heap, files_to_keep |-> files_to_keep,
        removed_count |-> removed_count]
  ELSE LET o == fs[i]
           h == heap[o].hash
       IN IF h \notin seen_hashes
          THEN dedup_from(i + 1, fs, heap, seen_hashes \cup {h},
                          Append(files_to_keep, o), removed_count)
          ELSE LET c == close(heap, o)
               IN IF c.raised
                  THEN [raised |-> TRUE, objs |-> heap,
                        files_to_keep |-> files_to_keep,
                        removed_count |-> removed_count]
                  ELSE dedup_from(i + 1, fs, c.objs, seen_hashes,
                                  files_to_keep, removed_count + 1)

\* The second loop of remove_duplicates: _hash_counts rebuilt from the list.
RECURSIVE count_from(_, _, _, _)
count_from(i, fs, heap, counts) ==
  IF i > Len(fs) THEN counts
  ELSE LET h == heap[fs[i]].hash
       IN count_from(i + 1, fs, heap, DictPut(counts, h, DictGet(counts, h, 0) + 1))

\* PDFFileManager.remove_duplicates: returns removed_count (-1 stands for an
\* exception leaving the call).
remove_duplicates(m) ==
  LET d == dedup_from(1, m.files, m.objs, {}, <<>>, 0) IN
  IF d.raised
  THEN [m |-> [m EXCEPT !.objs = d.objs],
        ret |-> [ok |-> FALSE, msg |-> "ValueError", removed |-> -1]]
  ELSE LET counts == count_from(1, d.files_to_keep, d.objs, EmptyDict)
           u == update_duplicate_statuses(d.files_to_keep, counts, d.objs)
       IN [m |-> [files |-> d.files_to_keep, hash_counts |-> counts, objs |-> u.objs],
           ret |-> [ok |-> TRUE, msg |-> "return", removed |-> d.removed_count]]

\* PDFFileManager.get_duplicate_files
get_duplicate_files(m) ==
  SelectSeq(m.files, LAMBDA o : m.objs[o].status = DUPLICATE)

\* The loop of close_all from position i of the list on; close() raising
\* ends it.
RECURSIVE close_from(_, _, _)
close_from(i, fs, heap) ==
  IF i > Len(fs)
  THEN [raised |-> FALSE, objs |-> heap]
  ELSE LET c == close(heap, fs[i])
       IN IF c.raised
          THEN [raised |-> TRUE, objs |-> heap]
          ELSE close_from(i + 1, fs, c.objs)

\* PDFFileManager.close_all, called by PDFMergerGUI.__del__.
close_all(m) ==
  LET c == close_from(1, m.files, m.objs)
  IN [m |-> [m EXCEPT !.objs = c.objs],
      ret |-> IF c.raised
              THEN [ok |-> FALSE, msg |-> "ValueError"]
              ELSE [ok |-> TRUE, msg |-> "return"]]

\* ------------------------------------------------------------- merging

\* PDFFile.page_count: len(self.doc), the pages of the file that was opened.
page_count(pdf_file) == pdf_file.path.pages

\* PdfReader(path): raises unless the codec accepts the file; .pages are the
\* pages of the file, each known by its source and its 0-based index.
PdfReader(path) ==
  IF ~path.pdf
  THEN [raised |-> TRUE, pages |-> <<>>]
  ELSE [raised |-> FALSE,
        pages |-> [i \in 1..path.pages |-> [src |-> path, page |-> i - 1]]]

\* "for page in pdf_reader.pages: pdf_writer.add_page(page)" as it would be
\* with the first page of every reader left out.
add_pages_skipping_first(calls, pages) ==
  calls \o [i \in 1..(Len(pages) - 1) |-> [call |-> "add_page", page |-> pages[i + 1]]]

\* for page in pdf_reader.pages: pdf_writer.add_page(page)
add_pages(calls, pages) ==
  calls \o [i \in 1..Len(pages) |-> [call |-> "add_page", page |-> pages[i]]]

\* The loop of _merge_pdfs over self.file_manager.files from position i on;
\* `calls` are the calls made to pdf_writer so far.
RECURSIVE merge_from(_, _, _, _)
merge_from(i, fs, heap, calls) ==
  IF i > Len(fs)
  THEN [raised |-> FALSE, calls |-> calls]
  ELSE LET pdf_reader == PdfReader(heap[fs[i]].path)
       IN IF pdf_reader.raised
          THEN [raised |-> TRUE, calls |-> calls]
          ELSE merge_from(i + 1, fs, heap, add_pages(calls, pdf_reader.pages))

\* The open and write of the output as they would be with the write made
\* once more after it succeeded.
write_output_twice(calls, output_path, io) ==
  IF io = "open fails"
  THEN [raised |-> TRUE, calls |-> calls]
  ELSE IF io = "write fails"
  THEN [raised |-> TRUE,
        calls |-> Append(calls, [call |-> "write", to |-> output_path])]
  ELSE [raised |-> FALSE,
        calls |-> calls \o << [call |-> "write", to |-> output_path],
                              [call |-> "write", to |-> output_path] >>]

\* with open(output_path, 'wb') as output_file: pdf_writer.write(output_file)
\* after the calls made so far.  `io` is what the file system does: the open
\* fails, the write fails, or both succeed.
write_output(calls, output_path, io) ==
  IF io = "open fails"
  THEN [raised |-> TRUE, calls |-> calls]
  ELSE [raised |-> io = "write fails",
        calls |-> Append(calls, [call |-> "write", to |-> output_path])]

\* What can be at the destination before a merge or export: nothing, or a
\* file written earlier.
Destinations == {"absent", "old"}

\* The file at output_path after open(output_path, 'wb') and
\* pdf_writer.write(output_file): a failed open leaves what was there, the
\* open truncates or creates the file, and a write that fails partway leaves
\* in it what it had written.
written_file(before, io) ==
  IF io = "open fails" THEN before
  ELSE IF io = "write fails" THEN "partial"
  ELSE "complete"

\* The file at the destination after a merge or export that ended in r: the
\* open of the output is reached when no box but the success box or the
\* error of the open or write was shown.
destination_after(r, before, io) ==
  IF r.ret.ok \/ r.ret.msg = "OSError" THEN written_file(before, io) ELSE before

\* What the file system can do to the write of the output.
IOOutcomes == {"ok", "open fails", "write fails"}

\* What the save dialog returns: "" when it is cancelled.
OutputPaths == {"", "out.pdf"}

\* PDFMergerGUI._merge_pdfs: `msg` is the message box shown ("" for none);
\* the error box of the except clause is named by the exception it shows.
merge_pdfs(m, output_path, io) ==
  IF Len(m.files) = 0
  THEN [calls |-> <<>>, ret |-> [ok |-> FALSE, msg |-> "No PDF files to merge"]]
  ELSE IF output_path = ""
  THEN [calls |-> <<>>, ret |-> [ok |-> FALSE, msg |-> ""]]
  ELSE LET b == merge_from(1, m.files, m.objs, <<>>)
           w == write_output(b.calls, output_path, io)
       IN IF b.raised
          THEN [calls |-> b.calls, ret |-> [ok |-> FALSE, msg |-> "PdfReadError"]]
          ELSE IF w.raised
          THEN [calls |-> w.calls, ret |-> [ok |-> FALSE, msg |-> "OSError"]]
          ELSE [calls |-> w.calls, ret |-> [ok |-> TRUE, msg |-> "PDFs merged successfully!"]]

\* ------------------------------------------------------- the splitter

\* No file: the None of self.current_pdf_path and self.doc, and the empty
\* path a cancelled file dialog returns.
None == [dir |-> "", name |-> "", content |-> "none", pdf |-> FALSE, pages |-> 0]

\* The files the splitter's load dialog can return: a 5-page and a 2-page
\* document and a file the codec rejects.
Sources ==
  { [dir |-> "f", name |-> "v.pdf", content |-> "bytes4", pdf |-> TRUE, pages |-> 5] }
    \cup {p \in Disk : p.dir \in {"b", "e"}}

\* What PdfReader can find at a path when export_pdf runs: the file that was
\* picked, or a one-page document written over it since.
OnDisk(path) ==
  {path} \cup (IF path.pdf /\ path.pages > 1 THEN {[path EXCEPT !.pages = 1]} ELSE {})

\* Text is a sequence of characters.
Digits == <<"0", "1", "2", "3", "4", "5", "6", "7", "8", "9">>

\* str(n) of an int
RECURSIVE str(_)
str(n) ==
  IF n < 0 THEN <<"-">> \o str(-n)
  ELSE IF n < 10 THEN <<Digits[n + 1]>>
  ELSE str(n \div 10) \o <<Digits[(n % 10) + 1]>>

\* f"Pages {start} to {end}"
range_str(start, end) ==
  <<"P", "a", "g", "e", "s", " ">> \o str(start) \o <<" ", "t", "o", " ">> \o str(end)

\* item.split(): the runs of non-blank characters of text from position i
\* on; `word` is the run being read.
RECURSIVE split_from(_, _, _)
split_from(i, text, word) ==
  IF i > Len(text)
  THEN (IF word = <<>> THEN <<>> ELSE <<word>>)
  ELSE IF text[i] = " "
  THEN (IF word = <<>> THEN <<>> ELSE <<word>>) \o split_from(i + 1, text, <<>>)
  ELSE split_from(i + 1, text, Append(word, text[i]))

split(text) == split_from(1, text, <<>>)

IsDigit(c) == \E d \in 1..10 : Digits[d] = c

DigitValue(c) == (CHOOSE d \in 1..10 : Digits[d] = c) - 1

\* The value of a run of digits read left to right.
RECURSIVE digits_value(_, _, _)
digits_value(i, text, acc) ==
  IF i > Len(text) THEN acc
  ELSE digits_value(i + 1, text, acc * 10 + DigitValue(text[i]))

\* int(text): ValueError unless text is digits with an optional sign.
int(text) ==
  LET signed == Len(text) > 0 /\ text[1] \in {"-", "+"}
      body == IF signed THEN SubSeq(text, 2, Len(text)) ELSE text
  IN IF body = <<>> \/ \E i \in 1..Len(body) : ~IsDigit(body[i])
     THEN [raised |-> TRUE, value |-> 0]
     ELSE [raised |-> FALSE,
           value |-> IF signed /\ text[1] = "-"
                     THEN 0 - digits_value(1, body, 0)
                     ELSE digits_value(1, body, 0)]

\* drag_data of a listbox no row of which is held.
NoDrag == [item |-> <<>>, index |-> -1]

\* Listbox.delete(index) and Listbox.insert(index, item), 0-based.
ListInsert(s, index, item) ==
  SubSeq(s, 1, index) \o <<item>> \o SubSeq(s, index + 1, Len(s))

\* The state of a PDFSplitterGUI.
Gui ==
  [current_pdf_path |-> current_pdf_path, doc |-> doc,
   total_pages |-> total_pages, current_preview_page |-> current_preview_page,
   page_ranges |-> page_ranges, ranges_listbox |-> ranges_listbox,
   selection |-> selection, drag_data |-> drag_data]

\* PDFSplitterGUI.load_pdf as it would be if a new document left the range
\* list and its rows as they were.
load_pdf_keeping_ranges(g, file_path) ==
  IF file_path = None
  THEN [g |-> g, ret |-> [ok |-> FALSE, msg |-> ""]]
  ELSE IF fitz_open_raises(file_path)
  THEN [g |-> [g EXCEPT !.current_pdf_path = file_path],
        ret |-> [ok |-> FALSE, msg |-> "Failed to load PDF"]]
  ELSE [g |-> [g EXCEPT !.current_pdf_path = file_path,
                        !.doc = file_path,
                        !.total_pages = file_path.pages,
                        !.current_preview_page = 1],
        ret |-> [ok |-> TRUE, msg |-> "Loaded PDF"]]

\* PDFSplitterGUI.load_pdf
load_pdf(g, file_path) ==
  IF file_path = None
  THEN [g |-> g, ret |-> [ok |-> FALSE, msg |-> ""]]
  ELSE IF fitz_open_raises(file_path)
  THEN [g |-> [g EXCEPT !.current_pdf_path = file_path],
        ret |-> [ok |-> FALSE, msg |-> "Failed to load PDF"]]
  ELSE [g |-> [g EXCEPT !.current_pdf_path = file_path,
                        !.doc = file_path,
                        !.total_pages = file_path.pages,
                        !.current_preview_page = 1,
                        !.page_ranges = <<>>,
                        !.ranges_listbox = <<>>,
                        !.selection = {}],
        ret |-> [ok |-> TRUE, msg |-> "Loaded PDF"]]

\* PDFSplitterGUI.add_range as it would be without the test start > end.
add_range_unordered(g, start_text, end_text) ==
  LET start == int(start_text)
      end == int(end_text)
  IN IF start.raised \/ end.raised
        \/ start.value < 1 \/ end.value > g.total_pages
     THEN [g |-> g, ret |-> [ok |-> FALSE, msg |-> "Please enter valid page numbers"]]
     ELSE [g |-> [g EXCEPT
                    !.page_ranges = Append(@, <<start.value, end.value>>),
                    !.ranges_listbox = Append(@, range_str(start.value, end.value))],
           ret |-> [ok |-> TRUE, msg |-> ""]]

\* PDFSplitterGUI.add_range
add_range(g, start_text, end_text) ==
  LET start == int(start_text)
      end == int(end_text)
  IN IF start.raised \/ end.raised
        \/ start.value < 1 \/ end.value > g.total_pages \/ start.value > end.value
     THEN [g |-> g, ret |-> [ok |-> FALSE, msg |-> "Please enter valid page numbers"]]
     ELSE [g |-> [g EXCEPT
                    !.page_ranges = Append(@, <<start.value, end.value>>),
                    !.ranges_listbox = Append(@, range_str(start.value, end.value))],
           ret |-> [ok |-> TRUE, msg |-> ""]]

\* min(s) of a non-empty set of ints: curselection()[0]
First(s) == CHOOSE i \in s : \A j \in s : i <= j

\* PDFSplitterGUI.remove_range
remove_range(g) ==
  IF g.selection = {}
  THEN [g |-> g, ret |-> [ok |-> TRUE, msg |-> "return"]]
  ELSE LET index == First(g.selection)
           shown == [g EXCEPT !.ranges_listbox = ListPop(@, index),
                              !.selection = {}]
       IN IF index >= Len(g.page_ranges)
          THEN [g |-> shown, ret |-> [ok |-> FALSE, msg |-> "IndexError"]]
          ELSE [g |-> [shown EXCEPT !.page_ranges = ListPop(@, index)],
                ret |-> [ok |-> TRUE, msg |-> "return"]]

\* DraggableListbox.on_click; index is self.nearest(event.y), -1 on an empty
\* list.  The listbox's own binding then selects the row.
on_click(g, index) ==
  IF index >= 0
  THEN [g |-> [g EXCEPT !.drag_data = [item |-> g.ranges_listbox[index + 1],
                                       index |-> index],
                        !.selection = {index}],
        ret |-> [ok |-> TRUE, msg |-> "return"]]
  ELSE [g |-> g, ret |-> [ok |-> TRUE, msg |-> "return"]]

\* DraggableListbox.on_drag as it would be if the dragged row were inserted
\* without deleting it first.
on_drag_copying(g, new_index) ==
  IF g.drag_data.item # <<>> /\ new_index # g.drag_data.index
  THEN [g |-> [g EXCEPT
                 !.ranges_listbox = ListInsert(@, new_index, g.drag_data.item),
                 !.drag_data.index = new_index,
                 !.selection = {new_index}],
        ret |-> [ok |-> TRUE, msg |-> "moved"]]
  ELSE [g |-> g, ret |-> [ok |-> TRUE, msg |-> "return"]]

\* DraggableListbox.on_drag; new_index is self.nearest(event.y).
on_drag(g, new_index) ==
  IF g.drag_data.item # <<>> /\ new_index # g.drag_data.index
  THEN [g |-> [g EXCEPT
                 !.ranges_listbox =
                    ListInsert(ListPop(@, g.drag_data.index), new_index, g.drag_data.item),
                 !.drag_data.index = new_index,
                 !.selection = {new_index}],
        ret |-> [ok |-> TRUE, msg |-> "moved"]]
  ELSE [g |-> g, ret |-> [ok |-> TRUE, msg |-> "return"]]

\* The rows of the listbox read back as (start, end) pairs, from row i on.
RECURSIVE parse_rows(_, _)
parse_rows(i, rows) ==
  IF i > Len(rows) THEN [raised |-> FALSE, ranges |-> <<>>]
  ELSE LET parts == split(rows[i])
           start == IF Len(parts) >= 2 THEN int(parts[2]) ELSE [raised |-> TRUE, value |-> 0]
           end == IF Len(parts) >= 4 THEN int(parts[4]) ELSE [raised |-> TRUE, value |-> 0]
           rest == parse_rows(i + 1, rows)
       IN IF start.raised \/ end.raised \/ rest.raised
          THEN [raised |-> TRUE, ranges |-> <<>>]
          ELSE [raised |-> FALSE,
                ranges |-> <<(<<start.value, end.value>>)>> \o rest.ranges]

\* PDFSplitterGUI.on_ranges_reordered
on_ranges_reordered(g) ==
  LET new_ranges == parse_rows(1, g.ranges_listbox)
  IN IF new_ranges.raised
     THEN [g |-> g, ret |-> [ok |-> FALSE, msg |-> "ValueError"]]
     ELSE [g |-> [g EXCEPT !.page_ranges = new_ranges.ranges],
           ret |-> [ok |-> TRUE, msg |-> "<<ListboxReordered>>"]]

\* DraggableListbox.on_release
on_release(g) ==
  LET r == IF g.drag_data.item # <<>>
           THEN on_ranges_reordered(g)
           ELSE [g |-> g, ret |-> [ok |-> TRUE, msg |-> "return"]]
  IN [g |-> [r.g EXCEPT !.drag_data = NoDrag], ret |-> r.ret]

\* PDFSplitterGUI.goto_page
goto_page(g, text) ==
  LET page_num == int(text)
  IN IF page_num.raised
     THEN [g |-> g, ret |-> [ok |-> FALSE, msg |-> "Please enter a valid page number"]]
     ELSE IF 1 <= page_num.value /\ page_num.value <= g.total_pages
     THEN [g |-> [g EXCEPT !.current_preview_page = page_num.value],
           ret |-> [ok |-> TRUE, msg |-> ""]]
     ELSE [g |-> g, ret |-> [ok |-> FALSE, msg |-> "Please enter a page number between"]]

\* PDFSplitterGUI.prev_page
prev_page(g) ==
  [g |-> IF g.current_preview_page > 1
         THEN [g EXCEPT !.current_preview_page = @ - 1] ELSE g,
   ret |-> [ok |-> TRUE, msg |-> "return"]]

\* PDFSplitterGUI.next_page
next_page(g) ==
  [g |-> IF g.current_preview_page < g.total_pages
         THEN [g EXCEPT !.current_preview_page = @ + 1] ELSE g,
   ret |-> [ok |-> TRUE, msg |-> "return"]]

\* pdf_reader.pages[page_num] as it would be if an index past the end gave
\* the last page.
page_at_clamped(pages, page_num) ==
  IF Len(pages) = 0
  THEN [raised |-> TRUE, page |-> None]
  ELSE IF page_num >= Len(pages)
  THEN [raised |-> FALSE, page |-> pages[Len(pages)]]
  ELSE IF page_num < 0
  THEN [raised |-> FALSE, page |-> pages[1]]
  ELSE [raised |-> FALSE, page |-> pages[page_num + 1]]

\* pdf_reader.pages[page_num]: IndexError past either end, a negative index
\* counts from the end.
page_at(pages, page_num) ==
  IF page_num >= Len(pages) \/ page_num < 0 - Len(pages)
  THEN [raised |-> TRUE, page |-> None]
  ELSE IF page_num < 0
  THEN [raised |-> FALSE, page |-> pages[Len(pages) + page_num + 1]]
  ELSE [raised |-> FALSE, page |-> pages[page_num + 1]]

\* for page_num in range(start - 1, end) as it would be from start on.
range_first_shifted(start) == start

\* The first page_num of range(start - 1, end).
range_first(start) == start - 1

\* for page_num in range(.., end): pdf_writer.add_page(pdf_reader.pages[page_num])
\* from page_num on.
RECURSIVE add_range_pages(_, _, _, _)
add_range_pages(calls, pages, page_num, end) ==
  IF page_num >= end
  THEN [raised |-> FALSE, calls |-> calls]
  ELSE LET p == page_at(pages, page_num)
       IN IF p.raised
          THEN [raised |-> TRUE, calls |-> calls]
          ELSE add_range_pages(Append(calls, [call |-> "add_page", page |-> p.page]),
                               pages, page_num + 1, end)

\* The loop of export_pdf over self.page_ranges from position i on.
RECURSIVE export_from(_, _, _, _)
export_from(i, ranges, pages, calls) ==
  IF i > Len(ranges)
  THEN [raised |-> FALSE, calls |-> calls]
  ELSE LET r == add_range_pages(calls, pages, range_first(ranges[i][1]), ranges[i][2])
       IN IF r.raised THEN r ELSE export_from(i + 1, ranges, pages, r.calls)

\* PDFSplitterGUI.export_pdf; `found` is what PdfReader finds at
\* self.current_pdf_path.
export_pdf(g, output_path, io, found) ==
  IF Len(g.page_ranges) = 0
  THEN [calls |-> <<>>, ret |-> [ok |-> FALSE, msg |-> "No page ranges selected"]]
  ELSE IF output_path = ""
  THEN [calls |-> <<>>, ret |-> [ok |-> FALSE, msg |-> ""]]
  ELSE LET pdf_reader == PdfReader(found)
           b == export_from(1, g.page_ranges, pdf_reader.pages, <<>>)
           w == write_output(b.calls, output_path, io)
       IN IF pdf_reader.raised
          THEN [calls |-> <<>>, ret |-> [ok |-> FALSE, msg |-> "PdfReadError"]]
          ELSE IF b.raised
          THEN [calls |-> b.calls, ret |-> [ok |-> FALSE, msg |-> "IndexError"]]
          ELSE IF w.raised
          THEN [calls |-> w.calls, ret |-> [ok |-> FALSE, msg |-> "OSError"]]
          ELSE [calls |-> w.calls, ret |-> [ok |-> TRUE, msg |-> "PDF exported successfully!"]]

\* ------------------------------------------------- the merger's window

\* The files the merger's file dialog is pointed at: the two files named
\* alike of Disk and, next to the first, a copy of it under the name a file
\* manager gives a copy and a file the codec rejects.
GuiDisk ==
  {p \in Disk : p.dir \in {"a", "b"}}
    \cup { [dir |-> "a", name |-> "x (1).pdf", content |-> "bytes1", pdf |-> TRUE, pages |-> 3],
           [dir |-> "a", name |-> "w.pdf", content |-> "bytes3", pdf |-> FALSE, pages |-> 0] }

\* The characters of a name; "x" is the name no file has that a row of
\* "x (1).pdf" reads back as.
Spelling(name) ==
  CASE name = "x.pdf" -> <<"x", ".", "p", "d", "f">>
    [] name = "x (1).pdf" -> <<"x", " ", "(", "1", ")", ".", "p", "d", "f">>
    [] name = "w.pdf" -> <<"w", ".", "p", "d", "f">>
    [] name = "y.pdf" -> <<"y", ".", "p", "d", "f">>
    [] name = "z.pdf" -> <<"z", ".", "p", "d", "f">>
    [] name = "x" -> <<"x">>

Names == {"x.pdf", "x (1).pdf", "w.pdf", "y.pdf", "z.pdf", "x"}

\* The name that is spelled text.
Named(text) == CHOOSE name \in Names : Spelling(name) = text

\* f"{pdf_file.filename} ({pdf_file.page_count} pages)"
display_text(pdf_file) ==
  Spelling(filename(pdf_file)) \o <<" ", "(">> \o str(pdf_file.path.pages)
    \o <<" ", "p", "a", "g", "e", "s", ")">>

\* text.split(" (")[0]: text up to the first " (", all of it when there is
\* none; i is the position being looked at.
RECURSIVE before_paren(_, _)
before_paren(i, text) ==
  IF i >= Len(text) THEN text
  ELSE IF text[i] = " " /\ text[i + 1] = "("
  THEN SubSeq(text, 1, i - 1)
  ELSE before_paren(i + 1, text)

\* The state of a PDFMergerGUI and its file manager.
Win ==
  [files |-> files, hash_counts |-> hash_counts, objs |-> objs,
   files_listbox |-> files_listbox, selection |-> selection,
   drag_data |-> drag_data, current_preview_index |-> current_preview_index,
   current_preview_page |-> current_preview_page,
   remove_duplicates_btn |-> remove_duplicates_btn]

\* self.file_manager of a window, and the window around a manager.
manager_of(w) == [files |-> w.files, hash_counts |-> w.hash_counts, objs |-> w.objs]

with_manager(w, m) ==
  [w EXCEPT !.files = m.files, !.hash_counts = m.hash_counts, !.objs = m.objs]

\* A handler that returned, and one an exception ended.
Returned == [ok |-> TRUE, msg |-> "return"]

Raised(exception) == [ok |-> FALSE, msg |-> exception]

\* The loop of _refresh_file_list from position i of the list on: page_count
\* is len(self.doc), which raises on a closed document and leaves the rows
\* inserted so far.
RECURSIVE refresh_from(_, _, _, _)
refresh_from(i, fs, heap, rows) ==
  IF i > Len(fs)
  THEN [raised |-> FALSE, rows |-> rows]
  ELSE IF heap[fs[i]].closed
  THEN [raised |-> TRUE, rows |-> rows]
  ELSE refresh_from(i + 1, fs, heap, Append(rows, display_text(heap[fs[i]])))

\* PDFMergerGUI._refresh_file_list (the row colours are display only).
\* Deleting the rows clears the selection.
_refresh_file_list(w) ==
  LET r == refresh_from(1, w.files, w.objs, <<>>)
      shown == [w EXCEPT !.files_listbox = r.rows, !.selection = {}]
  IN IF r.raised
     THEN [w |-> shown, ret |-> Raised("ValueError")]
     ELSE [w |-> [shown EXCEPT !.remove_duplicates_btn =
                     IF Len(get_duplicate_files(manager_of(w))) > 0
                     THEN "normal" ELSE "disabled"],
           ret |-> Returned]

\* PDFMergerGUI._force_add_file with its refresh: everything is in the try
\* block, so an exception of the refresh is shown and the call returns.
_force_add_file(w, path) ==
  LET f == force_add_file(manager_of(w), path)
  IN IF f.ret.ok
     THEN _refresh_file_list(with_manager(w, f.m)).w
     ELSE with_manager(w, f.m)

\* The loop of _add_pdfs from position i of file_paths on; answers[i] is
\* what the user answers if asked whether to add file i anyway.  Only the
\* refresh after a successful add_file is outside every try block.
RECURSIVE add_from(_, _, _, _)
add_from(i, file_paths, answers, w) ==
  IF i > Len(file_paths)
  THEN [w |-> w, ret |-> Returned]
  ELSE LET a == add_file(manager_of(w), file_paths[i])
           added == with_manager(w, a.m)
       IN IF a.ret.ok
          THEN LET r == _refresh_file_list(added)
               IN IF r.ret.ok
                  THEN add_from(i + 1, file_paths, answers, r.w)
                  ELSE r
          ELSE IF a.ret.msg = "already exists" /\ answers[i]
          THEN add_from(i + 1, file_paths, answers, _force_add_file(added, file_paths[i]))
          ELSE add_from(i + 1, file_paths, answers, added)

\* PDFMergerGUI._add_pdfs
_add_pdfs(w, file_paths, answers) == add_from(1, file_paths, answers, w)

\* PDFMergerGUI._clear_preview
_clear_preview(w) ==
  [w EXCEPT !.current_preview_index = -1, !.current_preview_page = 1]

\* min(a, b)
min(a, b) == IF a <= b THEN a ELSE b

\* PDFMergerGUI._remove_selected; nothing is caught.
_remove_selected(w) ==
  IF w.selection = {}
  THEN [w |-> w, ret |-> Returned]
  ELSE LET index == First(w.selection)
           r == remove_file(manager_of(w), index)
           f == _refresh_file_list(with_manager(w, r.m))
       IN IF r.ret.msg # "return"
          THEN [w |-> with_manager(w, r.m), ret |-> Raised(r.ret.msg)]
          ELSE IF ~r.ret.ok
          THEN [w |-> w, ret |-> Returned]
          ELSE IF ~f.ret.ok
          THEN f
          ELSE IF Len(f.w.files) = 0
          THEN [w |-> _clear_preview(f.w), ret |-> Returned]
          ELSE IF index = f.w.current_preview_index
          THEN [w |-> [f.w EXCEPT
                         !.current_preview_index = min(index, Len(f.w.files) - 1),
                         !.current_preview_page = 1],
                ret |-> Returned]
          ELSE [w |-> f.w, ret |-> Returned]

\* PDFMergerGUI._remove_duplicates; answer is what the user answers to
\* "Remove n duplicate files?".  selection_set of an index below 0 selects
\* nothing.
_remove_duplicates(w, answer) ==
  IF Len(get_duplicate_files(manager_of(w))) = 0 \/ ~answer
  THEN [w |-> w, ret |-> Returned]
  ELSE LET d == remove_duplicates(manager_of(w))
           f == _refresh_file_list(with_manager(w, d.m))
           n == Len(f.w.files)
           index == IF f.w.current_preview_index >= n
                    THEN (IF n > 0 THEN n - 1 ELSE -1)
                    ELSE f.w.current_preview_index
       IN IF ~d.ret.ok
          THEN [w |-> with_manager(w, d.m), ret |-> Raised(d.ret.msg)]
          ELSE IF ~f.ret.ok
          THEN f
          ELSE IF n > 0
          THEN [w |-> [f.w EXCEPT !.current_preview_index = index,
                                  !.selection = IF index >= 0 THEN {index} ELSE {},
                                  !.current_preview_page = 1],
                ret |-> Returned]
          ELSE [w |-> _clear_preview(f.w), ret |-> Returned]

\* PDFMergerGUI._on_file_select as it would be if it took the previewed
\* file out of the collection's list.
_on_file_select_dropping(w) ==
  IF w.selection = {}
  THEN w
  ELSE [w EXCEPT !.current_preview_index = First(w.selection),
                 !.current_preview_page = 1,
                 !.files = ListPop(@, First(w.selection))]

\* PDFMergerGUI._on_file_select
_on_file_select(w) ==
  IF w.selection = {}
  THEN w
  ELSE [w EXCEPT !.current_preview_index = First(w.selection),
                 !.current_preview_page = 1]

\* DraggableListbox._on_click; index is self.nearest(event.y), -1 on an
\* empty list.
_on_click(w, index) ==
  IF index >= 0
  THEN [w EXCEPT !.drag_data = [item |-> w.files_listbox[index + 1], index |-> index]]
  ELSE w

\* What Tk's own binding of the listbox does after _on_click: it selects the
\* row under the pointer and sends <<ListboxSelect>>.
ListboxBeginSelect(w, index) ==
  _on_file_select([w EXCEPT !.selection = IF index >= 0 THEN {index} ELSE {}])

\* DraggableListbox._on_drag; new_index is self.nearest(event.y).
_on_drag(w, new_index) ==
  IF w.drag_data.item # <<>> /\ new_index # w.drag_data.index
  THEN [w EXCEPT
          !.files_listbox =
             ListInsert(ListPop(@, w.drag_data.index), new_index, w.drag_data.item),
          !.drag_data.index = new_index,
          !.selection = {new_index}]
  ELSE w

\* What Tk's own binding does after _on_drag: when the pointer has reached
\* another row than the one selected last (prev), it selects that row and
\* sends <<ListboxSelect>>.
ListboxMotion(w, prev, index) ==
  IF index = prev \/ index < 0
  THEN w
  ELSE _on_file_select([w EXCEPT !.selection = {index}])

\* The loop of _on_files_reordered: the names read back from the rows.
rows_new_order(rows) == [i \in 1..Len(rows) |-> Named(before_paren(1, rows[i]))]

\* PDFMergerGUI._on_files_reordered.  It runs as the callback of an event of
\* its own, so an exception of the refresh ends it and nothing else.
_on_files_reordered(w) ==
  LET r == reorder_files(manager_of(w), rows_new_order(w.files_listbox))
  IN IF r.ret.ok
     THEN _refresh_file_list(with_manager(w, r.m)).w
     ELSE w

\* DraggableListbox._on_release
_on_release(w) ==
  [(IF w.drag_data.item # <<>> THEN _on_files_reordered(w) ELSE w)
     EXCEPT !.drag_data = NoDrag]

\* PDFMergerGUI._prev_page
_prev_page(w) ==
  IF w.current_preview_index >= 0 /\ w.current_preview_page > 1
  THEN [w EXCEPT !.current_preview_page = @ - 1]
  ELSE w

\* PDFMergerGUI._next_page: self.file_manager.files[index] raises IndexError
\* past the end of the list and page_count raises on a closed document.
_next_page(w) ==
  IF w.current_preview_index < 0
  THEN [w |-> w, ret |-> Returned]
  ELSE IF w.current_preview_index >= Len(w.files)
  THEN [w |-> w, ret |-> Raised("IndexError")]
  ELSE LET pdf_file == w.objs[w.files[w.current_preview_index + 1]]
       IN IF pdf_file.closed
          THEN [w |-> w, ret |-> Raised("ValueError")]
          ELSE IF w.current_preview_page < pdf_file.path.pages
          THEN [w |-> [w EXCEPT !.current_preview_page = @ + 1], ret |-> Returned]
          ELSE [w |-> w, ret |-> Returned]

\* ------------------------------------------------------------ the machine

\* The filenames of the collection, in list order.
CurrentNames(m) == [i \in 1..Len(m.files) |-> filename(m.objs[m.files[i]])]

\* The names a caller can list: those in the collection and one no file has.
NamesIn(m) == {CurrentNames(m)[i] : i \in 1..Len(m.files)} \cup {"q.pdf"}

\* The name lists a drag produces: the current names, rows permuted.
Permuted(m) ==
  {[i \in 1..Len(m.files) |-> CurrentNames(m)[pi[i]]] :
     pi \in Permutations(1..Len(m.files))}

\* Name lists that are no reordering of the rows: the current names with one
\* entry missing, one entry replaced (by a name listed already or by an
\* unknown one), or one entry too many.
Edited(m) ==
  LET cur == CurrentNames(m)
      n == Len(cur)
  IN {ListPop(cur, k - 1) : k \in 1..n}
       \cup {[cur EXCEPT ![k] = nm] : k \in 1..n, nm \in NamesIn(m)}
       \cup {Append(cur, nm) : nm \in NamesIn(m)}

\* The lists reorder_files is called with.
NewOrders(m) == Permuted(m) \cup Edited(m)

\* The object ids the list refers to.
Listed(fs) == {fs[i] : i \in 1..Len(fs)}

\* A PDFFile that no position of the list refers to is out of the program's
\* reach: nothing reads its path, hash or status again.  Its document handle
\* stays what it was, open or closed.
Unreachable(pdf_file) ==
  [path |-> "unreachable", hash |-> "unreachable", status |-> NORMAL,
   closed |-> pdf_file.closed]

Heap(m) ==
  [o \in DOMAIN m.objs |->
     IF o \in Listed(m.files) THEN m.objs[o] ELSE Unreachable(m.objs[o])]

\* `last` records the call that led to the state: its name and what it
\* returned or raised.  `writer` records the calls it made to its PdfWriter
\* and to the output file, in order, and `output_file` what it left at the
\* destination path.
NoCall == [op |-> "init", ret |-> [ok |-> TRUE, msg |-> "return"]]

\* One of the two programs runs: pdf_merger.py or pdf_splitter_and_merger.py.
Programs == {"merger", "splitter"}

\* PDFFileManager.__init__ and PDFSplitterGUI.__init__
Init ==
  /\ program \in Programs
  /\ files = <<>>
  /\ hash_counts = EmptyDict
  /\ objs = <<>>
  /\ current_pdf_path = None
  /\ doc = None
  /\ total_pages = 0
  /\ current_preview_page = 1
  /\ page_ranges = <<>>
  /\ ranges_listbox = <<>>
  /\ selection = {}
  /\ drag_data = NoDrag
  /\ files_listbox = <<>>
  /\ current_preview_index = -1
  /\ remove_duplicates_btn = "disabled"
  /\ writer = <<>>
  /\ output_file = "absent"
  /\ last = NoCall

\* PDFMergerGUI.__del__ is the last thing that runs on the window and its
\* manager.
Alive == last.op # "close_all"

\* The state after a call that ended in r.
Becomes(r, op) ==
  /\ program = "merger"
  /\ Alive
  /\ Len(r.m.objs) <= MaxDocs
  /\ files' = r.m.files
  /\ hash_counts' = r.m.hash_counts
  /\ objs' = Heap(r.m)
  /\ writer' = <<>>
  /\ output_file' = "absent"
  /\ last' = [op |-> op, ret |-> r.ret]
  /\ UNCHANGED <<program, gui, window>>

AddFile == \E p \in Disk : Becomes(add_file(Mgr, p), "add_file")

ForceAddFile == \E p \in Disk : Becomes(force_add_file(Mgr, p), "force_add_file")

RemoveFile ==
  \E index \in -1..Len(files) : Becomes(remove_file(Mgr, index), "remove_file")

ReorderFiles ==
  \E new_order \in NewOrders(Mgr) :
    Becomes(reorder_files(Mgr, new_order), "reorder_files")

RemoveDuplicates == Becomes(remove_duplicates(Mgr), "remove_duplicates")

\* PDFMergerGUI.__del__
CloseAll == Becomes(close_all(Mgr), "close_all")

\* PDFMergerGUI._merge_pdfs
MergePdfs ==
  \E output_path \in OutputPaths, io \in IOOutcomes, before \in Destinations :
    LET r == merge_pdfs(Mgr, output_path, io)
    IN /\ program = "merger"
       /\ Alive
       /\ UNCHANGED <<program, manager, gui, window>>
       /\ writer' = r.calls
       /\ output_file' = destination_after(r, before, io)
       /\ last' = [op |-> "merge_pdfs", ret |-> r.ret]

\* The splitter's window after a handler that ended in r.
Shows(r, op) ==
  /\ program = "splitter"
  /\ current_pdf_path' = r.g.current_pdf_path
  /\ doc' = r.g.doc
  /\ total_pages' = r.g.total_pages
  /\ current_preview_page' = r.g.current_preview_page
  /\ page_ranges' = r.g.page_ranges
  /\ ranges_listbox' = r.g.ranges_listbox
  /\ selection' = r.g.selection
  /\ drag_data' = r.g.drag_data
  /\ writer' = <<>>
  /\ output_file' = "absent"
  /\ last' = [op |-> op, ret |-> r.ret]
  /\ UNCHANGED <<program, manager, window>>

\* No row of the listbox is held: the mouse button is up.  Buttons and
\* dialogs are reached with the pointer, so their handlers run only then.
Idle == drag_data = NoDrag

\* The numbers the user types into an entry field.
EntryNumbers == {0, 1, 3, 5, 6}

\* What the user types into an entry field: a number, a letter or nothing.
EntryTexts == {str(n) : n \in EntryNumbers} \cup {<<"x">>, <<>>}

\* What self.nearest(event.y) returns: a row, or -1 on an empty list.
Nearest(rows) == IF Len(rows) = 0 THEN {-1} ELSE 0..(Len(rows) - 1)

LoadPdf ==
  /\ Idle
  /\ \E file_path \in Sources \cup {None} : Shows(load_pdf(Gui, file_path), "load_pdf")

AddRange ==
  /\ Idle
  /\ Len(page_ranges) < MaxRanges
  /\ \E start_text \in EntryTexts, end_text \in EntryTexts :
       Shows(add_range(Gui, start_text, end_text), "add_range")

RemoveRange == Idle /\ Shows(remove_range(Gui), "remove_range")

OnClick ==
  /\ Idle
  /\ \E index \in Nearest(ranges_listbox) : Shows(on_click(Gui, index), "on_click")

OnDrag == \E new_index \in Nearest(ranges_listbox) : Shows(on_drag(Gui, new_index), "on_drag")

OnRelease == Shows(on_release(Gui), "on_release")

GotoPage == Idle /\ \E text \in EntryTexts : Shows(goto_page(Gui, text), "goto_page")

PrevPage == Idle /\ Shows(prev_page(Gui), "prev_page")

NextPage == Idle /\ Shows(next_page(Gui), "next_page")

ExportPdf ==
  /\ Idle
  /\ \E output_path \in OutputPaths, io \in IOOutcomes,
        found \in OnDisk(current_pdf_path), before \in Destinations :
       LET r == export_pdf(Gui, output_path, io, found)
       IN /\ program = "splitter"
          /\ UNCHANGED <<program, manager, gui, window>>
          /\ writer' = r.calls
          /\ output_file' = destination_after(r, before, io)
          /\ last' = [op |-> "export_pdf", ret |-> r.ret]

\* The merger's window and manager after a handler that ended in r.
Displays(r, op) ==
  /\ program = "merger"
  /\ Len(r.w.objs) <= MaxDocs
  /\ files' = r.w.files
  /\ hash_counts' = r.w.hash_counts
  /\ objs' = Heap(manager_of(r.w))
  /\ files_listbox' = r.w.files_listbox
  /\ selection' = r.w.selection
  /\ drag_data' = r.w.drag_data
  /\ current_preview_index' = r.w.current_preview_index
  /\ current_preview_page' = r.w.current_preview_page
  /\ remove_duplicates_btn' = r.w.remove_duplicates_btn
  /\ writer' = <<>>
  /\ output_file' = "absent"
  /\ last' = [op |-> op, ret |-> r.ret]
  /\ UNCHANGED <<program, current_pdf_path, doc, total_pages, page_ranges, ranges_listbox>>

\* What filedialog.askopenfilenames returns: up to MaxBatch different files
\* of one directory, none when the dialog is cancelled.
Batches ==
  {file_paths \in UNION {[1..n -> GuiDisk] : n \in 0..MaxBatch} :
     \A i \in 1..Len(file_paths), j \in 1..Len(file_paths) :
       /\ file_paths[i].dir = file_paths[j].dir
       /\ file_paths[i] = file_paths[j] => i = j}

\* What the user answers to "Add it anyway?" for each file of a batch.  The
\* question is only asked for a file whose hash is counted when its turn
\* comes, so "yes" is listed only where _hash_counts or an earlier file of
\* the batch has its hash.
Answers(file_paths) ==
  {answers \in [1..Len(file_paths) -> BOOLEAN] :
     \A i \in 1..Len(file_paths) :
       answers[i] =>
         \/ md5(file_paths[i].content) \in DOMAIN hash_counts
         \/ \E j \in 1..(i - 1) : file_paths[j].content = file_paths[i].content}

\* PDFMergerGUI._add_pdfs
AddPdfs ==
  /\ Idle
  /\ \E file_paths \in Batches :
       \E answers \in Answers(file_paths) :
         Displays(_add_pdfs(Win, file_paths, answers), "_add_pdfs")

\* PDFMergerGUI._remove_selected
RemoveSelected == Idle /\ Displays(_remove_selected(Win), "_remove_selected")

\* PDFMergerGUI._remove_duplicates, the command of a button that only
\* _refresh_file_list enables.
RemoveDuplicatesPressed ==
  /\ Idle
  /\ remove_duplicates_btn = "normal"
  /\ \E answer \in BOOLEAN :
       Displays(_remove_duplicates(Win, answer), "_remove_duplicates")

\* <Button-1> on the listbox: _on_click, then Tk's binding and with it
\* _on_file_select.
ClickRow ==
  /\ Idle
  /\ \E index \in Nearest(files_listbox) :
       Displays([w |-> ListboxBeginSelect(_on_click(Win, index), index), ret |-> Returned],
                "_on_click")

\* <B1-Motion> while a row is held: _on_drag, then Tk's binding.
DragRow ==
  /\ ~Idle
  /\ \E new_index \in Nearest(files_listbox) :
       Displays([w |-> ListboxMotion(_on_drag(Win, new_index), drag_data.index, new_index),
                 ret |-> Returned],
                "_on_drag")

\* <ButtonRelease-1> while a row is held: _on_release.
ReleaseRow ==
  /\ ~Idle
  /\ Displays([w |-> _on_release(Win), ret |-> Returned], "_on_release")

\* PDFMergerGUI._prev_page
PrevPreview == Idle /\ Displays([w |-> _prev_page(Win), ret |-> Returned], "_prev_page")

\* PDFMergerGUI._next_page
NextPreview == Idle /\ Displays(_next_page(Win), "_next_page")

\* The handlers of the merger's window.
GuiNext ==
  \/ AddPdfs
  \/ RemoveSelected
  \/ RemoveDuplicatesPressed
  \/ ClickRow
  \/ DragRow
  \/ ReleaseRow
  \/ PrevPreview
  \/ NextPreview

\* The handlers of pdf_merger.py.
MergerNext ==
  \/ AddFile
  \/ ForceAddFile
  \/ RemoveFile
  \/ ReorderFiles
  \/ RemoveDuplicates
  \/ CloseAll
  \/ MergePdfs

\* The handlers of pdf_splitter_and_merger.py.
SplitterNext ==
  \/ LoadPdf
  \/ AddRange
  \/ RemoveRange
  \/ OnClick
  \/ OnDrag
  \/ OnRelease
  \/ GotoPage
  \/ PrevPage
  \/ NextPage
  \/ ExportPdf

Next == MergerNext \/ SplitterNext

\* Either program, from its start.
Spec == Init /\ [][Next]_vars

\* pdf_merger.py alone.
MergerInit == Init /\ program = "merger"

MergerSpec == MergerInit /\ [][MergerNext]_vars

\* pdf_merger.py driven through its window.
GuiSpec == MergerInit /\ [][GuiNext]_vars

\* Either window.
WindowsSpec == Init /\ [][GuiNext \/ SplitterNext]_vars

\* pdf_splitter_and_merger.py alone.
SplitterInit == Init /\ program = "splitter"

SplitterSpec == SplitterInit /\ [][SplitterNext]_vars

\* ------------------------------------------------------------ properties

\* The hash of the file at position i of the list.
HashAt(fs, heap, i) == heap[fs[i]].hash

\* The number of entries of the list that carry hash h.
Carriers(fs, heap, h) == Cardinality({i \in 1..Len(fs) : HashAt(fs, heap, i) = h})

\* The hashes the list carries.
HashesOf(fs, heap) == {HashAt(fs, heap, i) : i \in 1..Len(fs)}

\* Every digest a file of Disk can have.
AllHashes == {md5(p.content) : p \in {d \in Disk : d.content # "none"}}

\* The step taken is the call that ended in r.
IsCall(r, op) ==
  /\ last'.op = op
  /\ last'.ret = r.ret
  /\ files' = r.m.files
  /\ hash_counts' = r.m.hash_counts
  /\ objs' = Heap(r.m)

\* s and t list the same names the same number of times.
SameNames(s, t) ==
  \A nm \in {s[i] : i \in 1..Len(s)} \cup {t[i] : i \in 1..Len(t)} :
    Cardinality({i \in 1..Len(s) : s[i] = nm})
      = Cardinality({i \in 1..Len(t) : t[i] = nm})

\* C1: in every reachable state a file of the list has status DUPLICATE if
\* and only if more than one entry of the list carries its hash (and so is
\* NORMAL when its hash occurs once).
C1_StatusIffHashShared ==
  \A i \in 1..Len(files) :
    (objs[files[i]].status = DUPLICATE)
      <=> (Carriers(files, objs, HashAt(files, objs, i)) > 1)

\* C2: in every reachable state _hash_counts agrees with the list: the
\* count of every hash is the number of entries carrying it, and a hash is a
\* key only when at least one entry carries it.
C2_HashCountsConsistent ==
  \A h \in AllHashes \cup DOMAIN hash_counts :
    /\ DictGet(hash_counts, h, 0) = Carriers(files, objs, h)
    /\ h \in DOMAIN hash_counts => Carriers(files, objs, h) >= 1

\* C3: reorder_files called with the names of the documents of the
\* collection in any permuted order returns True and leaves the list in
\* exactly that order of documents, also when two documents share a name.
C3_ReorderPermutationExact ==
  [][\A pi \in Permutations(1..Len(files)) :
       LET want == [i \in 1..Len(files) |-> files[pi[i]]]
           new_order == [i \in 1..Len(files) |-> filename(objs[want[i]])]
       IN IsCall(reorder_files(Mgr, new_order), "reorder_files")
            => (last'.ret.ok /\ files' = want)]_vars

\* C4: reorder_files called with a list that is no permutation of the names
\* of the collection (a name missing, extra, unknown or repeated) returns
\* False and leaves the list unchanged.
C4_ReorderNonPermutationRejected ==
  [][\A new_order \in NewOrders(Mgr) :
       (/\ IsCall(reorder_files(Mgr, new_order), "reorder_files")
        /\ ~SameNames(new_order, CurrentNames(Mgr)))
         => (~last'.ret.ok /\ files' = files)]_vars

\* C5: no document occurs twice in the list, and a successful reorder
\* neither drops nor repeats a document: the documents listed before and
\* after are the same.
C5_DocumentsUniqueAndKept ==
  [][/\ \A i, j \in 1..Len(files') : files'[i] = files'[j] => i = j
     /\ (last'.op = "reorder_files" /\ last'.ret.ok)
          => Listed(files') = Listed(files)]_vars

\* C6: add_file of a file whose hash a document of the list carries reports
\* the duplicate conflict and changes nothing.
C6_AddCarriedHashConflicts ==
  [][\A p \in Disk :
       (/\ IsCall(add_file(Mgr, p), "add_file")
        /\ ~calculate_hash(p).raised
        /\ calculate_hash(p).hash \in HashesOf(files, objs))
         => (/\ last'.ret = [ok |-> FALSE, msg |-> "already exists"]
             /\ UNCHANGED <<files, hash_counts, objs>>)]_vars

\* C7: add_file of a loadable file whose hash no document of the list
\* carries succeeds: no conflict is reported and exactly one new document is
\* appended at the end, the earlier ones staying as they were.
C7_AddFreshHashAppends ==
  [][\A p \in Disk :
       (/\ IsCall(add_file(Mgr, p), "add_file")
        /\ ~calculate_hash(p).raised
        /\ ~fitz_open_raises(p)
        /\ calculate_hash(p).hash \notin HashesOf(files, objs))
         => (/\ last'.ret.ok
             /\ files' = Append(files, Len(objs) + 1)
             /\ objs'[Len(objs) + 1].path = p)]_vars

\* C8: an add_file or _force_add_file that ends in a load error (the read
\* for the hash fails, or the codec rejects the file) leaves the list, the
\* hash counts and every status as they were.
C8_LoadErrorChangesNothing ==
  [][(/\ last'.op \in {"add_file", "force_add_file"}
      /\ last'.ret.msg \in {"IOError", "FileDataError"})
       => UNCHANGED <<files, hash_counts, objs>>]_vars

\* C8 witness: a load error has been reported while the collection holds
\* documents, one of them marked duplicate.
C8_Witness ==
  /\ last.op \in {"add_file", "force_add_file"}
  /\ last.ret.msg \in {"IOError", "FileDataError"}
  /\ Len(files) >= 2
  /\ \E i \in 1..Len(files) : objs[files[i]].status = DUPLICATE

\* C9: _force_add_file of a loadable file appends one new document at the
\* end whatever its hash; when a document of the list carried the hash
\* already, every document with that hash is DUPLICATE afterwards.
C9_ForceAddAppendsAndMarks ==
  [][\A p \in Disk :
       (/\ IsCall(force_add_file(Mgr, p), "force_add_file")
        /\ ~calculate_hash(p).raised
        /\ ~fitz_open_raises(p))
         => (/\ files' = Append(files, Len(objs) + 1)
             /\ objs'[Len(objs) + 1].path = p
             /\ calculate_hash(p).hash \in HashesOf(files, objs)
                  => \A i \in 1..Len(files') :
                       HashAt(files', objs', i) = calculate_hash(p).hash
                         => objs'[files'[i]].status = DUPLICATE)]_vars

\* The positions of the list that hold the first entry of their hash.
FirstOfHash(fs, heap) ==
  {i \in 1..Len(fs) : \A j \in 1..(i - 1) : HashAt(fs, heap, j) # HashAt(fs, heap, i)}

\* C10: remove_duplicates keeps exactly the first document of every hash, in
\* the order they had, returns the number removed (the length before minus
\* the number of distinct hashes), and leaves every hash counted once and
\* every document NORMAL.
C10_RemoveDuplicatesKeepsFirsts ==
  [][last'.op = "remove_duplicates"
       => (/\ Len(files') = Cardinality(FirstOfHash(files, objs))
           /\ \A k \in 1..Len(files') :
                /\ \E i \in FirstOfHash(files, objs) :
                     /\ files'[k] = files[i]
                     /\ Cardinality({j \in FirstOfHash(files, objs) : j <= i}) = k
           /\ last'.ret.removed = Len(files) - Cardinality(HashesOf(files, objs))
           /\ DOMAIN hash_counts' = HashesOf(files', objs')
           /\ \A h \in DOMAIN hash_counts' : hash_counts'[h] = 1
           /\ \A k \in 1..Len(files') : objs'[files'[k]].status = NORMAL)]_vars

\* C11: remove_duplicates on a collection in which no two documents share a
\* hash returns 0 and changes nothing: the list, the hash counts, the
\* statuses and the handles stay as they were.
C11_RemoveDuplicatesIdempotent ==
  [][(/\ last'.op = "remove_duplicates"
      /\ \A i, j \in 1..Len(files) :
           HashAt(files, objs, i) = HashAt(files, objs, j) => i = j)
       => (/\ last'.ret.removed = 0
           /\ UNCHANGED <<files, hash_counts, objs>>)]_vars

\* C12: remove_file of a position of the list removes exactly that document,
\* keeps the others in their order, takes one off the count of its hash and
\* leaves the statuses right for the new list; with an index out of bounds
\* it returns False and changes nothing.
C12_RemoveFileExact ==
  [][\A index \in -1..Len(files) :
       IsCall(remove_file(Mgr, index), "remove_file")
         => IF 0 <= index /\ index < Len(files)
            THEN /\ last'.ret.ok
                 /\ files' = ListPop(files, index)
                 /\ files[index + 1] \notin Listed(files')
                 /\ objs'[files[index + 1]].closed
                 /\ \A h \in AllHashes \cup DOMAIN hash_counts :
                      DictGet(hash_counts', h, 0)
                        = DictGet(hash_counts, h, 0)
                            - (IF h = HashAt(files, objs, index + 1) THEN 1 ELSE 0)
                 /\ \A i \in 1..Len(files') :
                      (objs'[files'[i]].status = DUPLICATE)
                        <=> (Carriers(files', objs', HashAt(files', objs', i)) > 1)
            ELSE /\ ~last'.ret.ok
                 /\ UNCHANGED <<files, hash_counts, objs>>]_vars

\* C13: every document's handle is closed exactly once: no two entries of
\* the list hold one handle, close() is never called on a closed handle, a
\* listed document is open until the teardown, and a document that has left
\* the list, or any document after close_all, is closed.
C13_HandlesClosedExactlyOnce ==
  /\ \A i, j \in 1..Len(files) : files[i] = files[j] => i = j
  /\ last.ret.msg # "ValueError"
  /\ \A o \in DOMAIN objs :
       objs[o].closed <=> (o \notin Listed(files) \/ last.op = "close_all")

\* The pages of the documents before position i of the list.
RECURSIVE PagesBefore(_, _, _)
PagesBefore(i, fs, heap) ==
  IF i <= 1 THEN 0
  ELSE PagesBefore(i - 1, fs, heap) + page_count(heap[fs[i - 1]])

\* The add_page calls of a call log, in order.
AddedPages(calls) ==
  LET added == SelectSeq(calls, LAMBDA c : c.call = "add_page")
  IN [k \in 1..Len(added) |-> added[k].page]

\* C14: a merge gives the writer, for each document in list order, its pages
\* 0..page_count-1 in ascending order and nothing else, so that the output
\* has as many pages as the documents of the collection together.
C14_MergeInDocumentThenPageOrder ==
  (last.op = "merge_pdfs" /\ last.ret.ok)
    => /\ Len(AddedPages(writer)) = PagesBefore(Len(files) + 1, files, objs)
       /\ \A i \in 1..Len(files) :
            \A j \in 0..(page_count(objs[files[i]]) - 1) :
              AddedPages(writer)[PagesBefore(i, files, objs) + j + 1]
                = [src |-> objs[files[i]].path, page |-> j]

\* C14 witness: a merge of a 3-page document followed by a 2-page document
\* has succeeded.
C14_Witness ==
  /\ last.op = "merge_pdfs"
  /\ last.ret.ok
  /\ Len(files) = 2
  /\ page_count(objs[files[1]]) = 3
  /\ page_count(objs[files[2]]) = 2

\* The step taken is the splitter's handler that ended in r.
IsEvent(r, op) ==
  /\ last'.op = op
  /\ last'.ret = r.ret
  /\ current_pdf_path' = r.g.current_pdf_path
  /\ doc' = r.g.doc
  /\ total_pages' = r.g.total_pages
  /\ current_preview_page' = r.g.current_preview_page
  /\ page_ranges' = r.g.page_ranges
  /\ ranges_listbox' = r.g.ranges_listbox
  /\ selection' = r.g.selection
  /\ drag_data' = r.g.drag_data

\* The step taken is the export that ended in r.
IsExport(r) ==
  /\ last'.op = "export_pdf"
  /\ last'.ret = r.ret
  /\ writer' = r.calls

\* The pages the ranges before position i of the list cover together.
RECURSIVE RangePagesBefore(_, _)
RangePagesBefore(i, ranges) ==
  IF i <= 1 THEN 0
  ELSE RangePagesBefore(i - 1, ranges) + (ranges[i - 1][2] - ranges[i - 1][1] + 1)

\* C15: an export hands the writer, for each range (start, end) in list
\* order, the pages start-1 .. end-1 of the source in ascending order, a page
\* once per range that covers it, so that the output has as many pages as the
\* sum of end-start+1 over the list.
C15_ExportInRangeThenPageOrder ==
  (last.op = "export_pdf" /\ last.ret.ok)
    => /\ Len(AddedPages(writer)) = RangePagesBefore(Len(page_ranges) + 1, page_ranges)
       /\ \A i \in 1..Len(page_ranges) :
            \A j \in 0..(page_ranges[i][2] - page_ranges[i][1]) :
              LET entry == AddedPages(writer)[RangePagesBefore(i, page_ranges) + j + 1]
              IN /\ entry.page = page_ranges[i][1] - 1 + j
                 /\ entry.src.dir = current_pdf_path.dir
                 /\ entry.src.name = current_pdf_path.name

\* C15 witness: the ranges (1,3),(5,5) of a 5-page source have been exported.
C15_Witness ==
  /\ last.op = "export_pdf"
  /\ last.ret.ok
  /\ page_ranges = << <<1, 3>>, <<5, 5>> >>
  /\ [k \in 1..Len(AddedPages(writer)) |-> AddedPages(writer)[k].page] = <<0, 1, 2, 4>>

\* C16: add_range accepts (start, end) exactly when
\* 1 <= start <= end <= total_pages; it then appends (start, end) to the end
\* of the list, and otherwise reports an error and leaves the list as it was.
C16_AddRangeAcceptsIffValid ==
  [][\A start \in EntryNumbers, end \in EntryNumbers :
       IsEvent(add_range(Gui, str(start), str(end)), "add_range")
         => IF 1 <= start /\ start <= end /\ end <= total_pages
            THEN /\ last'.ret.ok
                 /\ page_ranges' = Append(page_ranges, <<start, end>>)
            ELSE /\ ~last'.ret.ok
                 /\ last'.ret.msg = "Please enter valid page numbers"
                 /\ page_ranges' = page_ranges]_vars

\* C16 witness: a range has been accepted behind another one.
C16_Witness ==
  /\ last.op = "add_range"
  /\ last.ret.ok
  /\ Len(page_ranges) = 2

\* C17: when a range of the list does not satisfy
\* 1 <= start <= end <= pages of the source that export reads, the export
\* reports an error and never calls write, whatever the ranges before it.
C17_InvalidRangeFailsExport ==
  [][\A io \in IOOutcomes, found \in OnDisk(current_pdf_path) :
       ( /\ IsExport(export_pdf(Gui, "out.pdf", io, found))
         /\ \E i \in 1..Len(page_ranges) :
              ~(1 <= page_ranges[i][1] /\ page_ranges[i][1] <= page_ranges[i][2]
                  /\ page_ranges[i][2] <= found.pages) )
         => /\ ~last'.ret.ok
            /\ last'.ret.msg \in {"IndexError", "PdfReadError"}
            /\ \A k \in 1..Len(writer') : writer'[k].call # "write"]_vars

\* C17 witness: an export has failed on a page the source does not have
\* after pages of an earlier range were added.
C17_Witness ==
  /\ last.op = "export_pdf"
  /\ last.ret.msg = "IndexError"
  /\ Len(page_ranges) = 2
  /\ Len(writer) = page_ranges[1][2] - page_ranges[1][1] + 1

\* s and t hold the same elements the same number of times.
SameBag(s, t) ==
  \A x \in {s[i] : i \in 1..Len(s)} \cup {t[i] : i \in 1..Len(t)} :
    Cardinality({i \in 1..Len(s) : s[i] = x})
      = Cardinality({i \in 1..Len(t) : t[i] = x})

\* C18: the end of a drag leaves page_ranges with the pairs it had, each as
\* often as before, in the order of the rows the listbox shows.
C18_DragPermutesRanges ==
  [][(last'.op = "on_release" /\ drag_data.item # <<>>)
       => /\ SameBag(page_ranges', page_ranges)
          /\ Len(page_ranges') = Len(ranges_listbox')
          /\ \A i \in 1..Len(page_ranges') :
               ranges_listbox'[i] = range_str(page_ranges'[i][1], page_ranges'[i][2])]_vars

\* C18 witness: a drag over a list of two different ranges has ended and
\* the list has been read back from the rows.
C18_Witness ==
  /\ last.op = "on_release"
  /\ last.ret.msg = "<<ListboxReordered>>"
  /\ Len(page_ranges) = 2
  /\ page_ranges[1] # page_ranges[2]

\* C19: a load_pdf that fails to open the chosen file leaves the source
\* path, the open document, total_pages and page_ranges as they were.
C19_FailedLoadChangesNothing ==
  [][(last'.op = "load_pdf" /\ last'.ret.msg = "Failed to load PDF")
       => UNCHANGED <<current_pdf_path, doc, total_pages, page_ranges>>]_vars

\* The number of pages the last merge or export was to put out.
PlanLength ==
  IF last.op = "merge_pdfs"
  THEN PagesBefore(Len(files) + 1, files, objs)
  ELSE RangePagesBefore(Len(page_ranges) + 1, page_ranges)

\* C20: a merge or export that succeeds has called add_page once per page of
\* the output and then write once; no write is ever followed by another
\* call, and none is made when collecting the pages failed.
C20_AddPagesThenOneWrite ==
  (last.op \in {"merge_pdfs", "export_pdf"})
    => /\ \A k \in 1..Len(writer) : writer[k].call = "write" => k = Len(writer)
       /\ last.ret.ok
            => /\ Len(writer) = PlanLength + 1
               /\ writer[Len(writer)].call = "write"
       /\ last.ret.msg \in {"PdfReadError", "IndexError"}
            => \A k \in 1..Len(writer) : writer[k].call # "write"

\* C20 witness: an export of more than one page has succeeded.
C20_Witness ==
  /\ last.op = "export_pdf"
  /\ last.ret.ok
  /\ Len(writer) > 2

\* C24: in every state of the splitter every range of page_ranges satisfies
\* 1 <= start <= end <= total_pages, whatever loads (opened or not), added
\* and removed ranges and drags came before.
C24_RangesWithinTotalPages ==
  (program = "splitter")
    => \A i \in 1..Len(page_ranges) :
         /\ 1 <= page_ranges[i][1]
         /\ page_ranges[i][1] <= page_ranges[i][2]
         /\ page_ranges[i][2] <= total_pages

\* C24 witness: a load has failed to open its file while ranges accepted for
\* the document loaded before are in the list.
C24_Witness ==
  /\ program = "splitter"
  /\ last.op = "load_pdf"
  /\ last.ret.msg = "Failed to load PDF"
  /\ total_pages > 0
  /\ page_ranges # <<>>

\* C23: after a merge or export whose write of the output failed partway,
\* the destination holds no partial file: it is absent, or the file that was
\* there before is still there.
C23_FailedWriteLeavesNoPartialFile ==
  ( /\ last.op \in {"merge_pdfs", "export_pdf"}
    /\ last.ret.msg = "OSError"
    /\ \E k \in 1..Len(writer) : writer[k].call = "write" )
    => output_file \in Destinations

\* C25: in every state of the merger's window current_preview_index is -1
\* or an index into file_manager.files, and _next_page never raises
\* IndexError.
C25_PreviewIndexValid ==
  /\ current_preview_index = -1
       \/ (0 <= current_preview_index /\ current_preview_index < Len(files))
  /\ ~(last.op = "_next_page" /\ last.ret.msg = "IndexError")

\* The step taken is the handler of the merger's window that ended in r.
IsShown(r, op) ==
  /\ last'.op = op
  /\ last'.ret = r.ret
  /\ files' = r.w.files
  /\ hash_counts' = r.w.hash_counts
  /\ objs' = Heap(manager_of(r.w))
  /\ files_listbox' = r.w.files_listbox
  /\ selection' = r.w.selection
  /\ current_preview_index' = r.w.current_preview_index
  /\ current_preview_page' = r.w.current_preview_page
  /\ remove_duplicates_btn' = r.w.remove_duplicates_btn

\* A file both the hash function and the codec can read.
Loadable(path) == path.content # "none" /\ path.pdf

\* File i of a batch has bytes that no entry of the list and no earlier file
\* of the batch has.
FreshInBatch(file_paths, i) ==
  /\ \A k \in 1..Len(files) : objs[files[k]].path.content # file_paths[i].content
  /\ \A j \in 1..(i - 1) : file_paths[j].content # file_paths[i].content

\* C21: in a batch add, a file that follows one that failed to load or was a
\* duplicate is still processed: when it is loadable and no duplicate it is
\* in the collection after the batch.
C21_BatchGoesOnAfterFailure ==
  [][\A file_paths \in Batches :
       \A answers \in Answers(file_paths) :
         IsShown(_add_pdfs(Win, file_paths, answers), "_add_pdfs")
           => \A i \in 1..Len(file_paths) :
                ( /\ \E j \in 1..(i - 1) :
                       ~Loadable(file_paths[j]) \/ ~FreshInBatch(file_paths, j)
                  /\ Loadable(file_paths[i])
                  /\ FreshInBatch(file_paths, i) )
                  => \E k \in 1..Len(files') : objs'[files'[k]].path = file_paths[i]]_vars

\* The selecting and paging handlers of the two windows.
PreviewHandlers ==
  {"_on_click", "_prev_page", "_next_page", "goto_page", "prev_page", "next_page"}

\* C22: selecting a file for preview and moving between pages leave the
\* collection and the range list as they were: files, _hash_counts, the
\* statuses, page_ranges and total_pages.
C22_PreviewChangesNoCollection ==
  [][last'.op \in PreviewHandlers
       => UNCHANGED <<files, hash_counts, objs, page_ranges, total_pages>>]_vars

\* C22 witness: the second page of the second file of the merger is
\* previewed.
C22_Witness ==
  /\ last.op = "_next_page"
  /\ last.ret.ok
  /\ current_preview_index = 1
  /\ current_preview_page = 2

====
